---- MODULE Spec2Model ----
(***************************************************************************)
(* Terminal session manager of src/tauri/src-tauri/src/terminal/mod.rs:    *)
(* the registry (SessionManager), the sessions (TerminalSession), the      *)
(* per-session output streaming thread (stream_output), and the PTY and    *)
(* subordinate process they talk to.                                       *)
(*                                                                         *)
(* Byte streams are kept run-length encoded: a stream is a sequence of     *)
(* runs [b |-> byte, n |-> count], no run empty, no two neighbours with    *)
(* the same byte.  This keeps streams longer than the 4096-byte read       *)
(* buffer small enough to explore.                                         *)
(***************************************************************************)
EXTENDS Integers, Sequences, FiniteSets, TLC

\* ----------------------------------------------------------------- bounds
MaxIn == 3           \* bytes callers may write to one session (profile SpecIn)
MaxOut == 2          \* output bursts of one process (profile SpecOut)
InCap == 2           \* bytes the PTY input queue holds before a write blocks

\* ------------------------------------------------------ program constants
BufSize == 4096      \* let mut buffer = [0u8; 4096]
InitCols == 80
InitRows == 24
InitPixel == 0

NoId == 0
NoCaller == 0
NotFound == "Session not found"
Ok == "Ok"
ErrOpenPty == "Failed to open PTY"
ErrSpawn == "Failed to spawn command"
ErrWriter == "Failed to get writer"
ErrReader == "Failed to get reader"
ErrWrite == "Failed to write"
ErrResize == "Failed to resize"

\* ------------------------------------------------- run-length byte streams
Min(a, b) == IF a < b THEN a ELSE b

RECURSIVE RLen(_)
RLen(rs) == IF rs = <<>> THEN 0 ELSE Head(rs).n + RLen(Tail(rs))

\* Concatenation, merging the runs that meet.
RCat(a, b) ==
    IF a = <<>> THEN b
    ELSE IF b = <<>> THEN a
    ELSE IF a[Len(a)].b = b[1].b
         THEN SubSeq(a, 1, Len(a) - 1)
              \o <<[b |-> b[1].b, n |-> a[Len(a)].n + b[1].n]>>
              \o Tail(b)
         ELSE a \o b

\* The first k bytes of rs (&buffer[..n]).
RECURSIVE RTake(_, _)
RTake(rs, k) ==
    IF k <= 0 \/ rs = <<>> THEN <<>>
    ELSE IF Head(rs).n <= k
         THEN <<Head(rs)>> \o RTake(Tail(rs), k - Head(rs).n)
         ELSE <<[b |-> Head(rs).b, n |-> k]>>

\* rs without its first k bytes.
RECURSIVE RDrop(_, _)
RDrop(rs, k) ==
    IF k <= 0 \/ rs = <<>> THEN rs
    ELSE IF Head(rs).n <= k
         THEN RDrop(Tail(rs), k - Head(rs).n)
         ELSE <<[b |-> Head(rs).b, n |-> Head(rs).n - k]>> \o Tail(rs)

RIsPrefix(a, b) == RLen(a) <= RLen(b) /\ RTake(b, RLen(a)) = a

\* Bytes the subordinate process can print: "A" is an ASCII byte (0x41),
\* "L" the lead byte of a two-byte UTF-8 sequence (0xC3), "T" a continuation
\* byte (0xA9).  "L" followed by "T" is the character U+00E9.
\* Characters of a decoded String: "A", "E9" (U+00E9), "FFFD" (U+FFFD).
Run(b, n) == IF n <= 0 THEN <<>> ELSE <<[b |-> b, n |-> n]>>

\* String::from_utf8_lossy over a run-length stream: every maximal invalid
\* part becomes one U+FFFD.  pend = TRUE while a lead byte waits for its
\* continuation byte.
RECURSIVE LossyFrom(_, _)
LossyFrom(rs, pend) ==
    IF rs = <<>> THEN (IF pend THEN Run("FFFD", 1) ELSE <<>>)
    ELSE LET r == Head(rs)
             rest == Tail(rs)
         IN CASE r.b = "A" ->
                   RCat(RCat(IF pend THEN Run("FFFD", 1) ELSE <<>>, Run("A", r.n)),
                        LossyFrom(rest, FALSE))
              [] r.b = "L" ->
                   \* every lead byte but the last is followed by a lead byte
                   RCat(Run("FFFD", (IF pend THEN 1 ELSE 0) + r.n - 1),
                        LossyFrom(rest, TRUE))
              [] r.b = "T" ->
                   RCat(RCat(IF pend THEN Run("E9", 1) ELSE <<>>,
                             Run("FFFD", IF pend THEN r.n - 1 ELSE r.n)),
                        LossyFrom(rest, FALSE))
              [] OTHER -> RCat(Run("FFFD", (IF pend THEN 1 ELSE 0) + r.n),
                               LossyFrom(rest, FALSE))

from_utf8_lossy(rs) == LossyFrom(rs, FALSE)

\* The UTF-8 bytes of a String (what the event payload holds).
RECURSIVE Utf8(_)
Utf8(cs) ==
    IF cs = <<>> THEN <<>>
    ELSE LET c == Head(cs)
             one == CASE c.b = "A" -> Run("A", 1)
                      [] c.b = "E9" -> Run("L", 1) \o Run("T", 1)
                      [] OTHER -> Run("xEF", 1) \o Run("xBF", 1) \o Run("xBD", 1)
         IN IF c.b = "A" THEN RCat(Run("A", c.n), Utf8(Tail(cs)))
            ELSE RCat(one, Utf8(RDrop(cs, 1)))

\* ------------------------------------------------------------------ state
VARIABLES
    pc,         \* pc[c]: where caller c is in the call it is making
    loc,        \* loc[c]: the arguments and locals of that call
    ret,        \* ret[c]: the call c made last and what it returned
    sessions,   \* SessionManager.sessions: id -> TerminalSession
    rw,         \* the tokio RwLock around it: writer and set of readers
    rwq,        \* the callers waiting for that lock, first come first
    usedIds,    \* the values uuid::Uuid::new_v4() has returned
    closedIds,  \* history: the ids a close has removed
    nPty,       \* PTY pairs openpty has handed out
    hnd,        \* hnd[p]: the handles of pair p this program holds open
    proc,       \* proc[p]: the subordinate process on the slave side
    size,       \* size[p]: the PtySize the pair has
    wmutex,     \* wmutex[p]: holder of the session's writer Mutex
    mmutex,     \* mmutex[p]: holder of the session's master Mutex
    delivered,  \* delivered[p]: the bytes the PTY accepted as input
    consumed,   \* consumed[p]: how many of them the process has read
    accepted,   \* history: what the finished writes on p put in, in order
    okput,      \* history: the data of the writes on p that returned Ok
    produced,   \* produced[p]: the bytes the process has printed
    nout,       \* nout[p]: output bursts of the process so far
    rpos,       \* rpos[p]: bytes of produced[p] the reader has returned
    task,       \* task[p]: where the stream_output thread of p is
    tsid,       \* tsid[p]: the session_id that thread was given
    tbuf,       \* tbuf[p]: buffer[..n] of the read it is handling
    events      \* events[i]: what was emitted under the names built from i

vars == <<pc, loc, ret, sessions, rw, rwq, usedIds, closedIds, nPty, hnd, proc, size,
          wmutex, mmutex, delivered, consumed, accepted, okput, produced, nout, rpos,
          task, tsid, tbuf, events>>

regVars == <<sessions, rw, rwq, usedIds, closedIds>>
ptyVars == <<nPty, hnd, proc, size>>
inVars == <<wmutex, delivered, consumed, accepted, okput>>
outVars == <<produced, nout, rpos, task, tsid, tbuf, events>>

Callers == DOMAIN pc
Ptys == DOMAIN proc
Ids == DOMAIN events

NoLoc == [id |-> NoId, pty |-> 0, data |-> <<>>, pos |-> 0, cols |-> 0, rows |-> 0]
NoRet == [op |-> "none", id |-> NoId, res |-> "none"]

\* Mutant: columns and rows change places.
PtySizeSwapped(rows, cols, pixel_width, pixel_height) ==
    [rows |-> cols, cols |-> rows, pixel_width |-> pixel_width,
     pixel_height |-> pixel_height]

PtySize(rows, cols, pixel_width, pixel_height) ==
    [rows |-> rows, cols |-> cols, pixel_width |-> pixel_width,
     pixel_height |-> pixel_height]

\* TerminalSession { id, writer, master }: both handles are those of pair p.
TerminalSession(id, p) == [id |-> id, pty |-> p]

InitFor(callers, ptys) ==
    /\ pc = [c \in callers |-> "idle"]
    /\ loc = [c \in callers |-> NoLoc]
    /\ ret = [c \in callers |-> NoRet]
    /\ sessions = <<>>
    /\ rw = [w |-> NoCaller, r |-> {}]
    /\ rwq = <<>>
    /\ usedIds = {}
    /\ closedIds = {}
    /\ nPty = 0
    /\ hnd = [p \in ptys |-> {}]
    /\ proc = [p \in ptys |-> "none"]
    /\ size = [p \in ptys |-> PtySize(0, 0, 0, 0)]
    /\ wmutex = [p \in ptys |-> NoCaller]
    /\ mmutex = [p \in ptys |-> NoCaller]
    /\ delivered = [p \in ptys |-> <<>>]
    /\ consumed = [p \in ptys |-> 0]
    /\ accepted = [p \in ptys |-> <<>>]
    /\ okput = [p \in ptys |-> <<>>]
    /\ produced = [p \in ptys |-> <<>>]
    /\ nout = [p \in ptys |-> 0]
    /\ rpos = [p \in ptys |-> 0]
    /\ task = [p \in ptys |-> "none"]
    /\ tsid = [p \in ptys |-> NoId]
    /\ tbuf = [p \in ptys |-> <<>>]
    /\ events = [i \in ptys |-> <<>>]

Return(c, op, id, res) ==
    /\ pc' = [pc EXCEPT ![c] = "idle"]
    /\ loc' = [loc EXCEPT ![c] = NoLoc]
    /\ ret' = [ret EXCEPT ![c] = [op |-> op, id |-> id, res |-> res]]

Goto(c, label) == pc' = [pc EXCEPT ![c] = label]

\* A new call: the result of the caller's previous call is history.
Forget(c) == ret' = [ret EXCEPT ![c] = NoRet]

\* tokio::sync::RwLock is fair (write-preferring): the tasks that wait for
\* it are served first come first, so a read() that comes after a waiting
\* write() waits behind it.  Enqueue is the call of read() or write(),
\* AtHead the turn of the caller, Dequeue the grant.
Enqueue(c) == rwq' = Append(rwq, c)
AtHead(c) == rwq # <<>> /\ Head(rwq) = c
Dequeue == rwq' = Tail(rwq)

\* ------------------------------------------------- create_session (55-121)
\* native_pty_system().openpty(PtySize { rows: 24, cols: 80, 0, 0 })
OpenPty(c) ==
    /\ pc[c] = "idle"
    /\ \/ /\ Return(c, "create", NoId, ErrOpenPty)
          /\ UNCHANGED ptyVars
       \/ /\ nPty < Cardinality(Ptys)
          /\ nPty' = nPty + 1
          /\ hnd' = [hnd EXCEPT ![nPty + 1] = {"master", "slave"}]
          /\ size' = [size EXCEPT ![nPty + 1] =
                         PtySize(InitRows, InitCols, InitPixel, InitPixel)]
          /\ Goto(c, "spawn")
          /\ loc' = [loc EXCEPT ![c].pty = nPty + 1]
          /\ Forget(c)
          /\ UNCHANGED proc
    /\ UNCHANGED <<regVars, mmutex, inVars, outVars>>

\* An early return of create_session drops `pair` and whatever was taken
\* from it; a dropped child handle neither kills nor waits for the process.
DropPair(p) == hnd' = [hnd EXCEPT ![p] = {}]

\* pair.slave.spawn_command(cmd)
SpawnCommand(c) ==
    /\ pc[c] = "spawn"
    /\ LET p == loc[c].pty IN
       \/ /\ DropPair(p)
          /\ Return(c, "create", NoId, ErrSpawn)
          /\ UNCHANGED proc
       \/ /\ proc' = [proc EXCEPT ![p] = "running"]
          /\ Goto(c, "take_writer")
          /\ UNCHANGED <<loc, ret, hnd>>
    /\ UNCHANGED <<regVars, nPty, size, mmutex, inVars, outVars>>

\* pair.master.take_writer()
TakeWriter(c) ==
    /\ pc[c] = "take_writer"
    /\ LET p == loc[c].pty IN
       \/ /\ DropPair(p)
          /\ Return(c, "create", NoId, ErrWriter)
       \/ /\ hnd' = [hnd EXCEPT ![p] = @ \cup {"writer"}]
          /\ Goto(c, "clone_reader")
          /\ UNCHANGED <<loc, ret>>
    /\ UNCHANGED <<regVars, nPty, proc, size, mmutex, inVars, outVars>>

\* pair.master.try_clone_reader()
CloneReader(c) ==
    /\ pc[c] = "clone_reader"
    /\ LET p == loc[c].pty IN
       \/ /\ DropPair(p)
          /\ Return(c, "create", NoId, ErrReader)
       \/ /\ hnd' = [hnd EXCEPT ![p] = @ \cup {"reader"}]
          /\ Goto(c, "new_id")
          /\ UNCHANGED <<loc, ret>>
    /\ UNCHANGED <<regVars, nPty, proc, size, mmutex, inVars, outVars>>

\* Mutant: an identifier source that may repeat itself.
new_any(id) == id \in Ids

\* uuid::Uuid::new_v4(): a value no earlier call returned (the version-4
\* UUID contract; the registry itself never compares identifiers).
new_v4(id) == id \in Ids \ usedIds

NewId(c) ==
    /\ pc[c] = "new_id"
    /\ \E id \in Ids :
          /\ new_v4(id)
          /\ usedIds' = usedIds \cup {id}
          /\ loc' = [loc EXCEPT ![c].id = id]
    /\ Goto(c, "lock_w")
    /\ Enqueue(c)
    /\ UNCHANGED <<ret, sessions, rw, closedIds, ptyVars, mmutex, inVars, outVars>>

\* Mutant: a lock that gives the write guard while read guards are out.
WriteLockEager == rw.w = NoCaller

\* self.sessions.write().await
WriteLockFree == rw.w = NoCaller /\ rw.r = {}
ReadLockFree == rw.w = NoCaller

\* Mutant: the thread is started before the session is inserted.
CreateLockStartsThread(c) ==
    /\ pc[c] = "lock_w"
    /\ AtHead(c)
    /\ WriteLockFree
    /\ Dequeue
    /\ rw' = [rw EXCEPT !.w = c]
    /\ Goto(c, "insert")
    /\ task' = [task EXCEPT ![loc[c].pty] = "reading"]
    /\ tsid' = [tsid EXCEPT ![loc[c].pty] = loc[c].id]
    /\ UNCHANGED <<loc, ret, sessions, usedIds, closedIds, ptyVars, mmutex, inVars,
                   produced, nout, rpos, tbuf, events>>

CreateLock(c) ==
    /\ pc[c] = "lock_w"
    /\ AtHead(c)
    /\ WriteLockFree
    /\ Dequeue
    /\ rw' = [rw EXCEPT !.w = c]
    /\ Goto(c, "insert")
    /\ UNCHANGED <<loc, ret, sessions, usedIds, closedIds, ptyVars, mmutex, inVars,
                   outVars>>

\* Mutant: a remove that leaves the entry in the map.
MapKeep(m, k) == m

\* Mutant: an insert that forgets the other entries.
MapSingleton(m, k, v) == [x \in {k} |-> v]

\* HashMap::insert: a value already under the key is replaced.
MapInsert(m, k, v) == [x \in DOMAIN m \cup {k} |-> IF x = k THEN v ELSE m[x]]
MapRemove(m, k) == [x \in DOMAIN m \ {k} |-> m[x]]

\* sessions.insert(id.clone(), session), and the guard goes out of scope
CreateInsert(c) ==
    /\ pc[c] = "insert"
    /\ rw.w = c
    /\ sessions' = MapInsert(sessions, loc[c].id, TerminalSession(loc[c].id, loc[c].pty))
    /\ rw' = [rw EXCEPT !.w = NoCaller]
    /\ Goto(c, "spawn_thread")
    /\ UNCHANGED <<loc, ret, rwq, usedIds, closedIds, ptyVars, mmutex, inVars, outVars>>

\* Mutant: the thread is given an identifier of the registry, not the one
\* of the session whose reader it holds.
SpawnThreadAnyId(c) ==
    /\ pc[c] = "spawn_thread"
    /\ LET p == loc[c].pty IN
       /\ task' = [task EXCEPT ![p] = "reading"]
       /\ \E id \in usedIds : tsid' = [tsid EXCEPT ![p] = id]
       /\ hnd' = [hnd EXCEPT ![p] = @ \ {"slave"}]
    /\ Return(c, "create", loc[c].id, Ok)
    /\ UNCHANGED <<regVars, nPty, proc, size, mmutex, inVars, produced, nout, rpos,
                   tbuf, events>>

\* thread::spawn(move || Self::stream_output(reader, session_id, app_handle));
\* Ok(id).  `pair.slave`, still held by this function, is dropped on return.
SpawnThread(c) ==
    /\ pc[c] = "spawn_thread"
    /\ LET p == loc[c].pty IN
       /\ task' = [task EXCEPT ![p] = "reading"]
       /\ tsid' = [tsid EXCEPT ![p] = loc[c].id]
       /\ hnd' = [hnd EXCEPT ![p] = @ \ {"slave"}]
    /\ Return(c, "create", loc[c].id, Ok)
    /\ UNCHANGED <<regVars, nPty, proc, size, mmutex, inVars, produced, nout, rpos,
                   tbuf, events>>

\* ------------------------------------------------------ write (153-160, 19-26)
\* A caller starts write(session_id, data) and waits for sessions.read().
WriteCall(c, id, d, maxIn) ==
    /\ pc[c] = "idle"
    /\ id \in DOMAIN sessions =>
          Len(delivered[sessions[id].pty]) + Len(d) <= maxIn
    /\ loc' = [loc EXCEPT ![c] = [NoLoc EXCEPT !.id = id, !.data = d]]
    /\ Goto(c, "w_lock")
    /\ Forget(c)
    /\ Enqueue(c)
    /\ UNCHANGED <<sessions, rw, usedIds, closedIds, ptyVars, mmutex, inVars, outVars>>

\* self.sessions.read().await
ReadLock(c) ==
    /\ pc[c] \in {"w_lock", "r_lock"}
    /\ AtHead(c)
    /\ ReadLockFree
    /\ Dequeue
    /\ rw' = [rw EXCEPT !.r = @ \cup {c}]
    /\ Goto(c, IF pc[c] = "w_lock" THEN "w_get" ELSE "r_get")
    /\ UNCHANGED <<loc, ret, sessions, usedIds, closedIds, ptyVars, mmutex, inVars,
                   outVars>>

ReadUnlock(c) == rw' = [rw EXCEPT !.r = @ \ {c}]

\* sessions.get(session_id).ok_or_else(|| "Session not found")
Found(id) == id \in DOMAIN sessions

\* Mutant: a missing session is not reported.
WriteGetUnchecked(c) ==
    /\ pc[c] = "w_get"
    /\ IF Found(loc[c].id)
       THEN /\ loc' = [loc EXCEPT ![c].pty = sessions[loc[c].id].pty]
            /\ Goto(c, "w_mutex")
            /\ UNCHANGED <<ret, rw>>
       ELSE /\ ReadUnlock(c)
            /\ Return(c, "write", loc[c].id, Ok)
    /\ UNCHANGED <<sessions, rwq, usedIds, closedIds, ptyVars, mmutex, inVars, outVars>>

\* Mutant: the lookup clones the Arc and gives the read guard back before
\* the session is used.
WriteGetCloneArc(c) ==
    /\ pc[c] = "w_get"
    /\ ReadUnlock(c)
    /\ IF Found(loc[c].id)
       THEN /\ loc' = [loc EXCEPT ![c].pty = sessions[loc[c].id].pty]
            /\ Goto(c, "w_mutex")
            /\ UNCHANGED ret
       ELSE Return(c, "write", loc[c].id, NotFound)
    /\ UNCHANGED <<sessions, rwq, usedIds, closedIds, ptyVars, mmutex, inVars, outVars>>

WriteGet(c) ==
    /\ pc[c] = "w_get"
    /\ IF Found(loc[c].id)
       THEN /\ loc' = [loc EXCEPT ![c].pty = sessions[loc[c].id].pty]
            /\ Goto(c, "w_mutex")
            /\ UNCHANGED <<ret, rw>>
       ELSE /\ ReadUnlock(c)
            /\ Return(c, "write", loc[c].id, NotFound)
    /\ UNCHANGED <<sessions, rwq, usedIds, closedIds, ptyVars, mmutex, inVars, outVars>>

\* Mutant: write without taking the writer Mutex.
WriterUnguarded(p) == TRUE

\* Mutant: one Mutex for the writers of all sessions.
WriterAllFree(p) == \A q \in Ptys : wmutex[q] = NoCaller

\* self.writer.lock()
WriterFree(p) == wmutex[p] = NoCaller

WriterLock(c) ==
    /\ pc[c] = "w_mutex"
    /\ WriterFree(loc[c].pty)
    /\ wmutex' = [wmutex EXCEPT ![loc[c].pty] = c]
    /\ Goto(c, "w_write_all")
    /\ UNCHANGED <<loc, ret, regVars, ptyVars, mmutex, delivered, consumed, accepted,
                   okput, outVars>>

\* Room in the PTY input queue; a write to a full queue blocks.
Room(p) == InCap - (Len(delivered[p]) - consumed[p])

\* The write of `data` ends: the writer guard and the read guard are dropped.
WriteEnds(c, p, put, res) ==
    /\ wmutex' = [wmutex EXCEPT ![p] = NoCaller]
    /\ accepted' = [accepted EXCEPT ![p] = @ \o put]
    /\ okput' = [okput EXCEPT ![p] = IF res = Ok THEN @ \o put ELSE @]
    /\ ReadUnlock(c)
    /\ Return(c, "write", loc[c].id, res)

\* One write(2) of write_all's loop: the PTY takes k >= 1 of the bytes left,
\* or the call fails (the slave side is gone).  After the last byte flush()
\* (nothing to do on a file descriptor) and the return.  write_all of no
\* bytes makes no write(2) and returns Ok.
WriteAll(c) ==
    /\ pc[c] = "w_write_all"
    /\ LET p == loc[c].pty
           d == loc[c].data
           left == Len(d) - loc[c].pos
       IN \/ /\ left = 0
             /\ WriteEnds(c, p, d, Ok)
             /\ UNCHANGED delivered
          \/ /\ left > 0
             /\ Room(p) > 0
             /\ \E k \in 1..Min(left, Room(p)) :
                   /\ delivered' = [delivered EXCEPT ![p] =
                                       @ \o SubSeq(d, loc[c].pos + 1, loc[c].pos + k)]
                   /\ IF k = left
                      THEN WriteEnds(c, p, d, Ok)
                      ELSE /\ loc' = [loc EXCEPT ![c].pos = @ + k]
                           /\ UNCHANGED <<pc, ret, rw, wmutex, accepted, okput>>
          \/ /\ left > 0
             /\ proc[p] = "exited"
             /\ WriteEnds(c, p, SubSeq(d, 1, loc[c].pos), ErrWrite)
             /\ UNCHANGED delivered
    /\ UNCHANGED <<sessions, rwq, usedIds, closedIds, ptyVars, mmutex, consumed, outVars>>

\* ---------------------------------------------------- resize (162-169, 28-39)
ResizeCall(c, id, cols, rows) ==
    /\ pc[c] = "idle"
    /\ loc' = [loc EXCEPT ![c] = [NoLoc EXCEPT !.id = id, !.cols = cols, !.rows = rows]]
    /\ Goto(c, "r_lock")
    /\ Forget(c)
    /\ Enqueue(c)
    /\ UNCHANGED <<sessions, rw, usedIds, closedIds, ptyVars, mmutex, inVars, outVars>>

ResizeGet(c) ==
    /\ pc[c] = "r_get"
    /\ IF Found(loc[c].id)
       THEN /\ loc' = [loc EXCEPT ![c].pty = sessions[loc[c].id].pty]
            /\ Goto(c, "r_mutex")
            /\ UNCHANGED <<ret, rw>>
       ELSE /\ ReadUnlock(c)
            /\ Return(c, "resize", loc[c].id, NotFound)
    /\ UNCHANGED <<sessions, rwq, usedIds, closedIds, ptyVars, mmutex, inVars, outVars>>

\* self.master.lock()
MasterFree(p) == mmutex[p] = NoCaller

MasterLock(c) ==
    /\ pc[c] = "r_mutex"
    /\ MasterFree(loc[c].pty)
    /\ mmutex' = [mmutex EXCEPT ![loc[c].pty] = c]
    /\ Goto(c, "r_resize")
    /\ UNCHANGED <<loc, ret, regVars, ptyVars, inVars, outVars>>

\* master.resize(PtySize { rows, cols, pixel_width: 0, pixel_height: 0 }):
\* the ioctl sets the size; once the process is gone the operating system may
\* refuse it.
MasterResize(c) ==
    /\ pc[c] = "r_resize"
    /\ LET p == loc[c].pty IN
       /\ \/ /\ size' = [size EXCEPT ![p] = PtySize(loc[c].rows, loc[c].cols, 0, 0)]
             /\ Return(c, "resize", loc[c].id, Ok)
          \/ /\ proc[p] = "exited"
             /\ Return(c, "resize", loc[c].id, ErrResize)
             /\ UNCHANGED size
       /\ mmutex' = [mmutex EXCEPT ![p] = NoCaller]
    /\ ReadUnlock(c)
    /\ UNCHANGED <<sessions, rwq, usedIds, closedIds, nPty, hnd, proc, inVars, outVars>>

\* ------------------------------------------------------------ close (171-178)
CloseCall(c, id) ==
    /\ pc[c] = "idle"
    /\ loc' = [loc EXCEPT ![c] = [NoLoc EXCEPT !.id = id]]
    /\ Goto(c, "c_lock")
    /\ Forget(c)
    /\ Enqueue(c)
    /\ UNCHANGED <<sessions, rw, usedIds, closedIds, ptyVars, mmutex, inVars, outVars>>

CloseLock(c) ==
    /\ pc[c] = "c_lock"
    /\ AtHead(c)
    /\ WriteLockFree
    /\ Dequeue
    /\ rw' = [rw EXCEPT !.w = c]
    /\ Goto(c, "c_remove")
    /\ UNCHANGED <<loc, ret, sessions, usedIds, closedIds, ptyVars, mmutex, inVars,
                   outVars>>

\* Mutant: close stops the stream_output thread of the session.
CloseRemoveStopsThread(c) ==
    /\ pc[c] = "c_remove"
    /\ rw.w = c
    /\ LET id == loc[c].id IN
       IF Found(id)
       THEN /\ sessions' = MapRemove(sessions, id)
            /\ closedIds' = closedIds \cup {id}
            /\ hnd' = [hnd EXCEPT ![sessions[id].pty] = {}]
            /\ task' = [task EXCEPT ![sessions[id].pty] = "terminated"]
            /\ Return(c, "close", id, Ok)
       ELSE /\ Return(c, "close", id, NotFound)
            /\ UNCHANGED <<sessions, closedIds, hnd, task>>
    /\ rw' = [rw EXCEPT !.w = NoCaller]
    /\ UNCHANGED <<rwq, usedIds, nPty, proc, size, mmutex, inVars, produced, nout, rpos,
                   tsid, tbuf, events>>

\* sessions.remove(session_id).ok_or_else(|| "Session not found")?; Ok(()).
\* The removed Arc<TerminalSession> is the last one: its writer and master
\* are dropped with it.
CloseRemove(c) ==
    /\ pc[c] = "c_remove"
    /\ rw.w = c
    /\ LET id == loc[c].id IN
       IF Found(id)
       THEN /\ sessions' = MapRemove(sessions, id)
            /\ closedIds' = closedIds \cup {id}
            /\ hnd' = [hnd EXCEPT ![sessions[id].pty] = @ \ {"writer", "master"}]
            /\ Return(c, "close", id, Ok)
       ELSE /\ Return(c, "close", id, NotFound)
            /\ UNCHANGED <<sessions, closedIds, hnd>>
    /\ rw' = [rw EXCEPT !.w = NoCaller]
    /\ UNCHANGED <<rwq, usedIds, nPty, proc, size, mmutex, inVars, outVars>>

\* ------------------------------------------- the subordinate process (84-87)
\* The process prints a burst of bytes.
ProcOutput(p, burst, maxOut) ==
    /\ proc[p] = "running"
    /\ nout[p] < maxOut
    /\ nout' = [nout EXCEPT ![p] = @ + 1]
    /\ produced' = [produced EXCEPT ![p] = RCat(@, burst)]
    /\ UNCHANGED <<pc, loc, ret, regVars, ptyVars, mmutex, inVars, rpos, task, tsid,
                   tbuf, events>>

\* The process reads what is waiting on its input.
ProcInput(p) ==
    /\ proc[p] = "running"
    /\ consumed[p] < Len(delivered[p])
    /\ consumed' = [consumed EXCEPT ![p] = Len(delivered[p])]
    /\ UNCHANGED <<pc, loc, ret, regVars, ptyVars, mmutex, wmutex, delivered, accepted,
                   okput, outVars>>

\* The process exits on its own.
ProcExit(p) ==
    /\ proc[p] = "running"
    /\ proc' = [proc EXCEPT ![p] = "exited"]
    /\ UNCHANGED <<pc, loc, ret, regVars, nPty, hnd, size, mmutex, inVars, outVars>>

\* ---------------------------------------------------- stream_output (123-151)
EventName(kind, session_id) == <<kind, session_id>>

\* app.emit(name, payload); the Result is discarded (`let _ =`).
Emit(name, payload, from) ==
    events' = [events EXCEPT ![name[2]] =
                  Append(@, [name |-> name, payload |-> payload, from |-> from])]

Avail(p) == RLen(produced[p]) - rpos[p]

\* Mutant: a read that returns all the bytes that wait, whatever the size of
\* the buffer.
ReaderReadAll(p) ==
    /\ task[p] = "reading"
    /\ \/ /\ Avail(p) > 0
          /\ tbuf' = [tbuf EXCEPT ![p] = RDrop(produced[p], rpos[p])]
          /\ rpos' = [rpos EXCEPT ![p] = @ + Avail(p)]
          /\ task' = [task EXCEPT ![p] = "output"]
       \/ /\ Avail(p) = 0
          /\ proc[p] = "exited"
          /\ \E r \in {"eof", "err"} : task' = [task EXCEPT ![p] = r]
          /\ UNCHANGED <<tbuf, rpos>>
    /\ UNCHANGED <<pc, loc, ret, regVars, ptyVars, mmutex, inVars, produced, nout, tsid,
                   events>>

\* reader.read(&mut buffer): blocks while the process lives and has printed
\* nothing new; Ok(n) with the n bytes that wait, as many as the buffer takes;
\* Ok(0) or Err once the process is gone and everything was read.  (Bytes
\* that arrive in pieces are separate bursts of the process.)
ReaderRead(p) ==
    /\ task[p] = "reading"
    /\ \/ /\ Avail(p) > 0
          /\ LET n == Min(Avail(p), BufSize) IN
                /\ tbuf' = [tbuf EXCEPT ![p] = RTake(RDrop(produced[p], rpos[p]), n)]
                /\ rpos' = [rpos EXCEPT ![p] = @ + n]
          /\ task' = [task EXCEPT ![p] = "output"]
       \/ /\ Avail(p) = 0
          /\ proc[p] = "exited"
          /\ \E r \in {"eof", "err"} : task' = [task EXCEPT ![p] = r]
          /\ UNCHANGED <<tbuf, rpos>>
    /\ UNCHANGED <<pc, loc, ret, regVars, ptyVars, mmutex, inVars, produced, nout, tsid,
                   events>>

\* Mutant: the thread emits only while no insert or remove holds the
\* registry lock.
EmitOutputUnderLock(p) ==
    /\ task[p] = "output"
    /\ ReadLockFree
    /\ Emit(EventName("terminal-output", tsid[p]),
            [text |-> from_utf8_lossy(tbuf[p]), raw |-> tbuf[p]], p)
    /\ task' = [task EXCEPT ![p] = "reading"]
    /\ tbuf' = [tbuf EXCEPT ![p] = <<>>]
    /\ UNCHANGED <<pc, loc, ret, regVars, ptyVars, mmutex, inVars, produced, nout, rpos,
                   tsid>>

\* Ok(n) => emit(event_name, String::from_utf8_lossy(&buffer[..n])), and loop.
EmitOutput(p) ==
    /\ task[p] = "output"
    /\ Emit(EventName("terminal-output", tsid[p]),
            [text |-> from_utf8_lossy(tbuf[p]), raw |-> tbuf[p]], p)
    /\ task' = [task EXCEPT ![p] = "reading"]
    /\ tbuf' = [tbuf EXCEPT ![p] = <<>>]
    /\ UNCHANGED <<pc, loc, ret, regVars, ptyVars, mmutex, inVars, produced, nout, rpos,
                   tsid>>

\* Mutant: the closed event is emitted and the loop goes on (no break).
EmitClosedNoBreak(p) ==
    /\ task[p] \in {"eof", "err"}
    /\ Emit(EventName("terminal-closed", tsid[p]), <<>>, p)
    /\ task' = [task EXCEPT ![p] = "reading"]
    /\ UNCHANGED <<pc, loc, ret, regVars, ptyVars, mmutex, inVars, produced,
                   nout, rpos, tsid, tbuf>>

\* Mutant: the thread takes the session out of the registry when the stream
\* ends.
EmitClosedAndRemove(p) ==
    /\ task[p] \in {"eof", "err"}
    /\ Emit(EventName("terminal-closed", tsid[p]), <<>>, p)
    /\ task' = [task EXCEPT ![p] = "terminated"]
    /\ hnd' = [hnd EXCEPT ![p] = @ \ {"reader"}]
    /\ sessions' = [i \in DOMAIN sessions \ {tsid[p]} |-> sessions[i]]
    /\ UNCHANGED <<pc, loc, ret, rw, rwq, usedIds, closedIds, nPty, proc, size, mmutex,
                   inVars, produced, nout, rpos, tsid, tbuf>>

\* Mutant: only Ok(0) ends the stream; a read error is not handled.
EmitClosedOnEof(p) ==
    /\ task[p] = "eof"
    /\ Emit(EventName("terminal-closed", tsid[p]), <<>>, p)
    /\ task' = [task EXCEPT ![p] = "terminated"]
    /\ hnd' = [hnd EXCEPT ![p] = @ \ {"reader"}]
    /\ UNCHANGED <<pc, loc, ret, regVars, nPty, proc, size, mmutex, inVars, produced,
                   nout, rpos, tsid, tbuf>>

\* Ok(0) | Err(e) => emit("terminal-closed-{session_id}", ()); break.
EmitClosed(p) ==
    /\ task[p] \in {"eof", "err"}
    /\ Emit(EventName("terminal-closed", tsid[p]), <<>>, p)
    /\ task' = [task EXCEPT ![p] = "terminated"]
    /\ hnd' = [hnd EXCEPT ![p] = @ \ {"reader"}]
    /\ UNCHANGED <<pc, loc, ret, regVars, nPty, proc, size, mmutex, inVars, produced,
                   nout, rpos, tsid, tbuf>>

\* ----------------------------------------------------------- specification
\* A profile fixes who calls, how many PTY pairs there are, what is written
\* and what the subordinate processes print.
\* The session_id a caller passes: one a create has returned, or a string
\* that names no session (an identifier not yet returned cannot be guessed).
NoSuchId == NoId - 1
CallIds == ({tsid[p] : p \in Ptys} \ {NoId}) \cup {NoSuchId}

\* The steps of the create_session calls.
CreateNext ==
    \/ \E c \in Callers : OpenPty(c)
    \/ \E c \in Callers : SpawnCommand(c)
    \/ \E c \in Callers : TakeWriter(c)
    \/ \E c \in Callers : CloneReader(c)
    \/ \E c \in Callers : NewId(c)
    \/ \E c \in Callers : CreateLock(c)
    \/ \E c \in Callers : CreateInsert(c)
    \/ \E c \in Callers : SpawnThread(c)

\* The steps of all four calls.
CallerNext(data, maxIn, dims) ==
    \/ CreateNext
    \/ \E c \in Callers, id \in CallIds, d \in data : WriteCall(c, id, d, maxIn)
    \/ \E c \in Callers : ReadLock(c)
    \/ \E c \in Callers : WriteGet(c)
    \/ \E c \in Callers : WriterLock(c)
    \/ \E c \in Callers : WriteAll(c)
    \/ \E c \in Callers, id \in CallIds, dim \in dims : ResizeCall(c, id, dim[1], dim[2])
    \/ \E c \in Callers : ResizeGet(c)
    \/ \E c \in Callers : MasterLock(c)
    \/ \E c \in Callers : MasterResize(c)
    \/ \E c \in Callers, id \in CallIds : CloseCall(c, id)
    \/ \E c \in Callers : CloseLock(c)
    \/ \E c \in Callers : CloseRemove(c)

\* The registry profile: two callers, two PTY pairs, writes of the empty
\* string, resizes to the size the terminal has, and subordinate processes
\* that print nothing, read nothing and exit when they like.
RegData == {<<>>}
RegDims == {<<InitCols, InitRows>>}

Init == InitFor({1, 2}, {1, 2})

Next ==
    \/ CallerNext(RegData, 0, RegDims)
    \/ \E p \in Ptys : ProcExit(p)
    \/ \E p \in Ptys : ReaderRead(p)
    \/ \E p \in Ptys : EmitClosed(p)

Spec == Init /\ [][Next]_vars

\* The input profile: two callers write "\x01\x02" and "\x03" to one session
\* of a process that reads its input, prints nothing and exits when it likes.
InData == {<<1, 2>>, <<3>>}

InitIn == InitFor({1, 2}, {1})

NextIn ==
    \/ CallerNext(InData, MaxIn, RegDims)
    \/ \E p \in Ptys : ProcInput(p)
    \/ \E p \in Ptys : ProcExit(p)
    \/ \E p \in Ptys : ReaderRead(p)
    \/ \E p \in Ptys : EmitClosed(p)

SpecIn == InitIn /\ [][NextIn]_vars

\* The output profile: one caller, one session, and a process that prints
\* ASCII bytes, the two bytes of U+00E9 in one burst or two, stray
\* continuation bytes, and more bytes at once than the read buffer holds.
OutBursts == {Run("A", 1), Run("L", 1), Run("T", 1), Run("A", BufSize + 1)}

InitOut == InitFor({1}, {1})

NextOut ==
    \/ CallerNext(RegData, 0, RegDims)
    \/ \E p \in Ptys, b \in OutBursts : ProcOutput(p, b, MaxOut)
    \/ \E p \in Ptys : ProcExit(p)
    \/ \E p \in Ptys : ReaderRead(p)
    \/ \E p \in Ptys : EmitOutput(p)
    \/ \E p \in Ptys : EmitClosed(p)

SpecOut == InitOut /\ [][NextOut]_vars

\* The multiplexing profile: two callers that create sessions at the same
\* time and make no other call, and processes that print one byte each, a
\* different one on each PTY.
MuxBurst(p) == IF p = 1 THEN Run("A", 1) ELSE Run("T", 1)

InitMux == InitFor({1, 2}, {1, 2})

NextMux ==
    \/ CreateNext
    \/ \E p \in Ptys : ProcOutput(p, MuxBurst(p), Len(<<1>>))
    \/ \E p \in Ptys : ProcExit(p)
    \/ \E p \in Ptys : ReaderRead(p)
    \/ \E p \in Ptys : EmitOutput(p)
    \/ \E p \in Ptys : EmitClosed(p)

SpecMux == InitMux /\ [][NextMux]_vars

\* The geometry profile: two callers create sessions, resize them to 132x43
\* and to 100x30 and close them, and write nothing; the processes print
\* nothing and exit when they like.  The stream_output threads, which
\* neither read nor set the geometry, stay in their first read.
GeoDims == {<<132, 43>>, <<100, 30>>}

InitGeo == InitFor({1, 2}, {1, 2})

NextGeo ==
    \/ CreateNext
    \/ \E c \in Callers : ReadLock(c)
    \/ \E c \in Callers, id \in CallIds, dim \in GeoDims :
          ResizeCall(c, id, dim[1], dim[2])
    \/ \E c \in Callers : ResizeGet(c)
    \/ \E c \in Callers : MasterLock(c)
    \/ \E c \in Callers : MasterResize(c)
    \/ \E c \in Callers, id \in CallIds : CloseCall(c, id)
    \/ \E c \in Callers : CloseLock(c)
    \/ \E c \in Callers : CloseRemove(c)
    \/ \E p \in Ptys : ProcExit(p)

SpecGeo == InitGeo /\ [][NextGeo]_vars

\* The contention profile: create_session has returned twice, sessions 1 and
\* 2 are registered on PTY pairs 1 and 2 with their threads in their first
\* read, and three callers write the empty string to them, resize them and
\* close them.
InitCon ==
    /\ pc = [c \in {1, 2, 3} |-> "idle"]
    /\ loc = [c \in {1, 2, 3} |-> NoLoc]
    /\ ret = [c \in {1, 2, 3} |-> NoRet]
    /\ sessions = [i \in {1, 2} |-> TerminalSession(i, i)]
    /\ rw = [w |-> NoCaller, r |-> {}]
    /\ rwq = <<>>
    /\ usedIds = {1, 2}
    /\ closedIds = {}
    /\ nPty = Cardinality({1, 2})
    /\ hnd = [p \in {1, 2} |-> {"master", "writer", "reader"}]
    /\ proc = [p \in {1, 2} |-> "running"]
    /\ size = [p \in {1, 2} |-> PtySize(InitRows, InitCols, InitPixel, InitPixel)]
    /\ wmutex = [p \in {1, 2} |-> NoCaller]
    /\ mmutex = [p \in {1, 2} |-> NoCaller]
    /\ delivered = [p \in {1, 2} |-> <<>>]
    /\ consumed = [p \in {1, 2} |-> 0]
    /\ accepted = [p \in {1, 2} |-> <<>>]
    /\ okput = [p \in {1, 2} |-> <<>>]
    /\ produced = [p \in {1, 2} |-> <<>>]
    /\ nout = [p \in {1, 2} |-> 0]
    /\ rpos = [p \in {1, 2} |-> 0]
    /\ task = [p \in {1, 2} |-> "reading"]
    /\ tsid = [p \in {1, 2} |-> p]
    /\ tbuf = [p \in {1, 2} |-> <<>>]
    /\ events = [i \in {1, 2} |-> <<>>]

NextCon ==
    \/ \E c \in Callers, id \in CallIds, d \in RegData : WriteCall(c, id, d, 0)
    \/ \E c \in Callers : ReadLock(c)
    \/ \E c \in Callers : WriteGet(c)
    \/ \E c \in Callers : WriterLock(c)
    \/ \E c \in Callers : WriteAll(c)
    \/ \E c \in Callers, id \in CallIds, dim \in RegDims : ResizeCall(c, id, dim[1], dim[2])
    \/ \E c \in Callers : ResizeGet(c)
    \/ \E c \in Callers : MasterLock(c)
    \/ \E c \in Callers : MasterResize(c)
    \/ \E c \in Callers, id \in CallIds : CloseCall(c, id)
    \/ \E c \in Callers : CloseLock(c)
    \/ \E c \in Callers : CloseRemove(c)

SpecCon == InitCon /\ [][NextCon]_vars

\* The output profile with the scheduling a thread of its own gives
\* stream_output: a step of the thread that stays possible is taken.
OutPtys == {1}
StreamOutput(p) == ReaderRead(p) \/ EmitOutput(p) \/ EmitClosed(p)
FairOut == SpecOut /\ \A p \in OutPtys : WF_vars(StreamOutput(p))

\* The input profile with the scheduling the runtime gives the calls: a call
\* that can take its next step takes it, the RwLock serves its queue, and a
\* caller that finds a session Mutex free again and again gets it.  Nothing
\* obliges the subordinate process to read its input or to exit, nor a
\* caller to make a call.
InCallers == {1, 2}
CallStep(c) ==
    \/ SpawnCommand(c) \/ TakeWriter(c) \/ CloneReader(c) \/ NewId(c)
    \/ CreateLock(c) \/ CreateInsert(c) \/ SpawnThread(c)
    \/ ReadLock(c) \/ WriteGet(c) \/ WriterLock(c) \/ WriteAll(c)
    \/ ResizeGet(c) \/ MasterLock(c) \/ MasterResize(c)
    \/ CloseLock(c) \/ CloseRemove(c)
FairIn ==
    /\ SpecIn
    /\ \A c \in InCallers : WF_vars(CallStep(c))
    /\ \A c \in InCallers : SF_vars(WriterLock(c)) /\ SF_vars(MasterLock(c))

\* ------------------------------------------------------------------ claims
Looks == {"w_get", "r_get", "c_remove"}

\* C1: a write, resize or close whose identifier is not in the mapping when
\* it looks it up returns "Session not found", and an identifier a close has
\* removed never comes back into the mapping: a write after a successful
\* close, and a second close, find nothing.
C1_NotFound ==
    [][/\ \A c \in Callers :
             (pc[c] \in Looks /\ pc'[c] # pc[c] /\ ~Found(loc[c].id)) =>
                 /\ pc'[c] = "idle"
                 /\ ret'[c].id = loc[c].id
                 /\ ret'[c].res = NotFound
       /\ closedIds' \cap DOMAIN sessions' = {}]_vars

\* A write and a close have both answered NotFound for a closed identifier.
C1_Witness ==
    \E c, d \in Callers :
        /\ ret[c].op = "write" /\ ret[c].res = NotFound /\ ret[c].id \in closedIds
        /\ ret[d].op = "close" /\ ret[d].res = NotFound /\ ret[d].id = ret[c].id

Creating == {"lock_w", "insert", "spawn_thread"}

\* C2: the identifiers of the sessions created so far are pairwise
\* different, also from those being created at the same time and from those
\* closed since, and the insert finds no entry under its key.
C2_UniqueIds ==
    /\ \A p, q \in Ptys : (p # q /\ tsid[p] # NoId) => tsid[p] # tsid[q]
    /\ \A c \in Callers : pc[c] \in Creating =>
          /\ loc[c].id \in Ids \ closedIds
          /\ \A q \in Ptys : q # loc[c].pty => tsid[q] # loc[c].id
          /\ \A d \in Callers : (d # c /\ pc[d] \in Creating) => loc[d].id # loc[c].id
          /\ pc[c] \in {"lock_w", "insert"} => ~Found(loc[c].id)

\* Two creates have returned, and the identifier of one was closed since.
C2_Witness ==
    \E p, q \in Ptys :
        /\ p # q /\ tsid[p] # NoId /\ tsid[q] # NoId
        /\ tsid[p] \in closedIds /\ Found(tsid[q])

IsClosed(e) == e.name[1] = "terminal-closed"
IsOutput(e) == e.name[1] = "terminal-output"

\* C3: among the events of one identifier a closed event is the last one (so
\* there is at most one, and no output event follows it), and a
\* stream_output thread that has terminated stays terminated and emits
\* nothing.
C3_ClosedOnce ==
    [][/\ \A i \in Ids : \A k \in 1..Len(events'[i]) :
             IsClosed(events'[i][k]) => k = Len(events'[i])
       /\ \A p \in Ptys : task[p] = "terminated" =>
             /\ task'[p] = "terminated"
             /\ events'[tsid[p]] = events[tsid[p]]]_vars

\* Output was forwarded, the closed event followed, the thread is gone and
\* the session has been closed as well.
C3_Witness ==
    \E p \in Ptys :
        /\ task[p] = "terminated"
        /\ tsid[p] \in closedIds
        /\ Len(events[tsid[p]]) >= 2
        /\ IsOutput(events[tsid[p]][1])
        /\ IsClosed(events[tsid[p]][Len(events[tsid[p]])])


HasClosed(i) == \E k \in 1..Len(events[i]) : IsClosed(events[i][k])

\* C4: once a read of the stream_output thread has returned end-of-stream or
\* an error, the thread emits the closed event of its session and
\* terminates; and no step of a running thread, the failed read and the
\* emission of the closed event included, changes the result of any caller
\* of the registry.
C4_EventuallyClosed ==
    /\ \A p \in OutPtys :
          (task[p] \in {"eof", "err"}) ~>
              (task[p] = "terminated" /\ HasClosed(tsid[p]))
    /\ [][(\E p \in OutPtys : task[p] # "none" /\ task'[p] # task[p]) =>
              (ret' = ret /\ pc' = pc)]_vars

\* The process exited without printing, the read returned end-of-stream or
\* an error, the one event of the session is the closed event and the
\* thread is gone.
C4_Witness ==
    \E p \in OutPtys :
        /\ task[p] = "terminated"
        /\ produced[p] = <<>>
        /\ Len(events[tsid[p]]) = 1
        /\ HasClosed(tsid[p])


\* What the write that holds the writer Mutex of p has put in so far.
InFlight(p) ==
    IF wmutex[p] = NoCaller THEN <<>>
    ELSE SubSeq(loc[wmutex[p]].data, 1, loc[wmutex[p]].pos)

\* C5 as claimed: with no write under way, the input of a session is the
\* concatenation of the data of its successful writes.
C5_OnlySuccessful ==
    \A p \in Ptys : wmutex[p] = NoCaller => delivered[p] = okput[p]

\* C5, amended: the input of a session is the concatenation, in the order
\* the writes held the writer Mutex, of what each write put in, which is its
\* whole data when it returned Ok and the bytes written before the error
\* when it failed; the bytes of the write under way follow those of the
\* finished ones, so no two writes are interleaved.
C5_WholeInOrder ==
    \A p \in Ptys :
        /\ delivered[p] = accepted[p] \o InFlight(p)
        /\ Len(okput[p]) <= Len(accepted[p])
        /\ \A c \in Callers :
              (pc[c] = "w_write_all" /\ loc[c].pty = p) => wmutex[p] = c

\* A write returned Ok, a later one failed after part of its data went in.
C5_Witness ==
    \E p \in Ptys, c \in Callers :
        /\ ret[c].op = "write" /\ ret[c].res = ErrWrite
        /\ okput[p] # <<>>
        /\ Len(accepted[p]) > Len(okput[p])
        /\ wmutex[p] = NoCaller


\* The output events among es, in order.
Outputs(es) == SelectSeq(es, IsOutput)

\* The chunks read (buffer[..n]) behind a sequence of output events, joined.
RECURSIVE RawCat(_)
RawCat(es) ==
    IF es = <<>> THEN <<>> ELSE RCat(Head(es).payload.raw, RawCat(Tail(es)))

\* The bytes of the payloads of a sequence of output events, joined.
RECURSIVE TextCat(_)
TextCat(es) ==
    IF es = <<>> THEN <<>> ELSE RCat(Utf8(Head(es).payload.text), TextCat(Tail(es)))

HasReplacement(text) == \E k \in 1..Len(text) : text[k].b = "FFFD"

\* C6 as claimed: the payloads of the output events of a session are chunks
\* of 1 to 4096 bytes whose concatenation is a prefix of what the process
\* printed.
C6_PayloadIsPrefix ==
    \A p \in Ptys : tsid[p] # NoId =>
        LET es == Outputs(events[tsid[p]]) IN
        /\ RIsPrefix(TextCat(es), produced[p])
        /\ \A k \in 1..Len(es) :
              /\ RLen(Utf8(es[k].payload.text)) >= 1
              /\ RLen(Utf8(es[k].payload.text)) <= BufSize

\* C6, amended: the output events of a session carry, in order, the lossy
\* UTF-8 decoding of consecutive chunks of 1 to 4096 bytes that, with the
\* chunk being handled, make up the bytes read so far, a prefix of what the
\* process printed; a payload has the bytes of its chunk when the decoding
\* replaced nothing.
C6_LossyChunksInOrder ==
    \A p \in Ptys : tsid[p] # NoId =>
        LET es == Outputs(events[tsid[p]]) IN
        /\ RCat(RawCat(es), tbuf[p]) = RTake(produced[p], rpos[p])
        /\ rpos[p] <= RLen(produced[p])
        /\ RLen(tbuf[p]) <= BufSize
        /\ task[p] = "output" <=> tbuf[p] # <<>>
        /\ \A k \in 1..Len(es) :
              /\ RLen(es[k].payload.raw) >= 1
              /\ RLen(es[k].payload.raw) <= BufSize
              /\ es[k].payload.text = from_utf8_lossy(es[k].payload.raw)
              /\ ~HasReplacement(es[k].payload.text) =>
                    Utf8(es[k].payload.text) = es[k].payload.raw

\* A full buffer of 4096 bytes was forwarded, and another payload holds a
\* replacement character.
C6_Witness ==
    \E p \in Ptys : tsid[p] # NoId /\
        LET es == Outputs(events[tsid[p]]) IN
        /\ \E k \in 1..Len(es) : RLen(es[k].payload.raw) = BufSize
        /\ \E k \in 1..Len(es) : HasReplacement(es[k].payload.text)


\* C7: the sessions created have pairwise different identifiers, every
\* event is filed under the identifier in its name, which is the identifier
\* of the session whose reader the emitting thread holds, and the chunks
\* forwarded under an identifier are, in order, the bytes read from the PTY
\* of that session and of no other.
C7_NoCrossDelivery ==
    /\ \A p, q \in Ptys : (p # q /\ tsid[p] # NoId) => tsid[p] # tsid[q]
    /\ \A i \in Ids : \A k \in 1..Len(events[i]) :
          /\ events[i][k].name[2] = i
          /\ tsid[events[i][k].from] = i
    /\ \A p \in Ptys : tsid[p] # NoId =>
          RCat(RawCat(Outputs(events[tsid[p]])), tbuf[p]) = RTake(produced[p], rpos[p])

\* Both sessions have forwarded the byte of their own process.
C7_Witness ==
    \A p \in {1, 2} :
        /\ tsid[p] # NoId
        /\ Outputs(events[tsid[p]]) # <<>>
        /\ Outputs(events[tsid[p]])[1].payload.raw = MuxBurst(p)


\* A create_session call that got PTY pair p has returned an error.
Failed(p) ==
    /\ p <= nPty
    /\ tsid[p] = NoId
    /\ \A c \in Callers : loc[c].pty = p => pc[c] \notin
          {"spawn", "take_writer", "clone_reader", "new_id", "lock_w", "insert",
           "spawn_thread"}

Registered(p) == \E i \in DOMAIN sessions : sessions[i].pty = p

\* C8 as claimed: a create that failed left nothing behind: no entry in the
\* mapping, no thread, no event, no open handle and no running subordinate
\* process.
C8_NothingLeftBehind ==
    \A p \in Ptys : Failed(p) =>
        /\ ~Registered(p)
        /\ task[p] = "none"
        /\ hnd[p] = {}
        /\ proc[p] # "running"

Delegated == {"w_write_all", "r_resize"}

\* C9 as claimed: once the stream_output thread of a session has terminated,
\* a write or resize that finds the session fails with an I/O error.
C9_IoErrorAfterExit ==
    [][\A c \in Callers :
          (pc[c] \in Delegated /\ pc'[c] = "idle"
              /\ task[loc[c].pty] = "terminated") =>
                 ret'[c].res \in {ErrWrite, ErrResize}]_vars

\* C9, amended: an entry leaves the mapping only in the step in which a
\* close of its identifier returns Ok; a write or resize that finds its
\* identifier is handed to the session, exited process and terminated
\* thread or not, and returns what the session's operation returns, Ok or
\* an I/O error, never NotFound.
C9_OnlyCloseRemoves ==
    [][/\ \A i \in DOMAIN sessions : i \notin DOMAIN sessions' =>
             \E c \in Callers :
                 /\ pc[c] = "c_remove" /\ loc[c].id = i
                 /\ ret'[c] = [op |-> "close", id |-> i, res |-> Ok]
       /\ \A c \in Callers :
             /\ (pc[c] \in {"w_get", "r_get"} /\ pc'[c] # pc[c] /\ Found(loc[c].id)) =>
                   /\ pc'[c] = (IF pc[c] = "w_get" THEN "w_mutex" ELSE "r_mutex")
                   /\ loc'[c].pty = sessions[loc[c].id].pty
             /\ (pc[c] = "w_write_all" /\ pc'[c] = "idle") =>
                   ret'[c].res \in {Ok, ErrWrite}
             /\ (pc[c] = "r_resize" /\ pc'[c] = "idle") =>
                   ret'[c].res \in {Ok, ErrResize}]_vars

\* The process has exited, the thread has emitted the closed event and
\* terminated, the session is still registered, and a write and a resize on
\* it have been handed to the session.
C9_Witness ==
    \E c, d \in Callers :
        /\ pc[c] = "w_write_all" /\ pc[d] = "r_resize"
        /\ loc[c].pty = loc[d].pty
        /\ Found(loc[c].id) /\ Found(loc[d].id)
        /\ proc[loc[c].pty] = "exited"
        /\ task[loc[c].pty] = "terminated"
        /\ HasClosed(loc[c].id)

\* C10 as claimed: every identifier in the mapping has a subordinate process
\* that has not exited and a stream_output thread that has not terminated.
C10_AllLive ==
    \A i \in DOMAIN sessions :
        /\ proc[sessions[i].pty] = "running"
        /\ task[sessions[i].pty] # "terminated"

\* C10, amended: every identifier in the mapping is that of a session that
\* was created and not closed since, whose writer and master the registry
\* still holds open and whose process was spawned (it may have exited, and
\* the thread may have terminated or not have started); an identifier that
\* got NotFound is not in the mapping, and NotFound is the one answer for
\* the identifier never created and the identifier closed.
C10_CreatedNotClosed ==
    /\ \A i \in DOMAIN sessions :
          LET p == sessions[i].pty IN
          /\ sessions[i].id = i
          /\ i \in usedIds \ closedIds
          /\ {"writer", "master"} \subseteq hnd[p]
          /\ proc[p] \in {"running", "exited"}
          /\ tsid[p] \in {NoId, i}
          /\ \A j \in DOMAIN sessions : sessions[j].pty = p => j = i
    /\ \A c \in Callers : ret[c].res = NotFound =>
          /\ ~Found(ret[c].id)
          /\ ret[c].id \in closedIds \cup {NoSuchId}

\* A session is registered whose process has exited and whose thread has
\* terminated, and NotFound was the answer both for an identifier never
\* created and for one closed.
C10_Witness ==
    /\ \E i \in DOMAIN sessions :
          /\ proc[sessions[i].pty] = "exited"
          /\ task[sessions[i].pty] = "terminated"
    /\ \E c, d \in Callers :
          /\ ret[c].res = NotFound /\ ret[c].id = NoSuchId
          /\ ret[d].res = NotFound /\ ret[d].id \in closedIds


InWrite == {"w_lock", "w_get", "w_mutex", "w_write_all"}
InResize == {"r_lock", "r_get", "r_mutex", "r_resize"}

\* C11 as claimed: every write and every resize that was called returns,
\* whatever the other callers and the subordinate process do, and every
\* close and create that waits for the registry lock gets it.
C11_CallsReturn ==
    \A c \in InCallers :
        /\ (pc[c] \in InWrite \cup InResize) ~> (pc[c] = "idle")
        /\ (pc[c] \in {"lock_w", "c_lock"}) ~> (pc[c] \in {"insert", "c_remove"})


\* Where a call holds the mapping exclusively (the write guard) and where it
\* holds it shared (the read guard).
HoldsExclusive == {"insert", "c_remove"}
HoldsShared == {"w_get", "w_mutex", "w_write_all", "r_get", "r_mutex", "r_resize"}

\* C12: at most one insert or remove is at the mapping at a time, and while
\* one is, no lookup of a write or resize holds the mapping; the lock's
\* record of its holders is what the calls believe.
C12_ReadersWriterExclusion ==
    LET ex == {c \in Callers : pc[c] \in HoldsExclusive}
        sh == {c \in Callers : pc[c] \in HoldsShared}
    IN /\ Cardinality(ex) <= 1
       /\ ex # {} => sh = {}
       /\ ex = (IF rw.w = NoCaller THEN {} ELSE {rw.w})
       /\ sh = rw.r

\* Two lookups hold the mapping at the same time, a write and a resize of
\* different callers, both still at sessions.get.
C12_Witness ==
    \E c, d \in Callers :
        /\ c # d
        /\ pc[c] = "w_get" /\ pc[d] = "r_get"
        /\ rw.r = {c, d}


\* The geometry a resize call asks for.
Asked(c) ==
    [rows |-> loc[c].rows, cols |-> loc[c].cols, pixel_width |-> InitPixel,
     pixel_height |-> InitPixel]

InitGeometry ==
    [rows |-> InitRows, cols |-> InitCols, pixel_width |-> InitPixel,
     pixel_height |-> InitPixel]

\* C13: the geometry of a PTY is set to 80 columns, 24 rows and 0x0 pixels
\* when it is opened and changes afterwards only in the step in which a
\* resize on its session returns Ok, to the columns and rows of that call
\* with 0x0 pixels; that step changes no other session's geometry, and a
\* resize that returns NotFound or an I/O error changes none.
C13_Geometry ==
    [][/\ \A p \in Ptys : size'[p] # size[p] =>
             \/ /\ nPty' = p /\ nPty = p - 1
                /\ size'[p] = InitGeometry
             \/ \E c \in Callers :
                   /\ pc[c] = "r_resize" /\ loc[c].pty = p
                   /\ Found(loc[c].id) /\ sessions[loc[c].id].pty = p
                   /\ ret'[c] = [op |-> "resize", id |-> loc[c].id, res |-> Ok]
       /\ \A c \in Callers : (pc[c] \in InResize /\ pc'[c] = "idle") =>
             IF ret'[c].res = Ok
             THEN /\ size'[loc[c].pty] = Asked(c)
                  /\ \A q \in Ptys \ {loc[c].pty} : size'[q] = size[q]
             ELSE size' = size
       /\ \A p \in Ptys : p <= nPty' =>
             size'[p].pixel_width = InitPixel /\ size'[p].pixel_height = InitPixel]_vars

\* One session was resized to 132x43 and a later resize on it failed with an
\* I/O error; the other session, never resized with success, is 80x24 still,
\* and a resize on an unknown identifier got NotFound.
C13_Witness ==
    \E c, d \in Callers, p, q \in Ptys :
        /\ p # q /\ Registered(p) /\ Registered(q)
        /\ ret[c] = [op |-> "resize", id |-> tsid[p], res |-> ErrResize]
        /\ size[p] = [rows |-> 43, cols |-> 132, pixel_width |-> 0, pixel_height |-> 0]
        /\ size[q] = InitGeometry
        /\ ret[d] = [op |-> "resize", id |-> NoSuchId, res |-> NotFound]


\* A close or create waits for the registry lock ahead of caller c.
BehindExclusive(c) ==
    \E k, m \in 1..Len(rwq) :
        /\ k < m /\ rwq[m] = c
        /\ pc[rwq[k]] \in {"lock_w", "c_lock"}

\* The write or resize of c on a session waits for the registry lock, no
\* insert or remove holds that lock, and what keeps c from it is the write
\* or resize of d, in progress on another session.
WaitsFor(c, d) ==
    /\ c # d
    /\ pc[c] \in {"w_lock", "r_lock"} /\ Found(loc[c].id)
    /\ pc[d] \in HoldsShared /\ Found(loc[d].id) /\ loc[d].id # loc[c].id
    /\ rw.w = NoCaller
    /\ BehindExclusive(c)

\* C14 as claimed: no write or resize on a session is made to wait by a
\* write or resize in progress on another session, pending closes or not.
C14_NeverWaitsForOther == \A c, d \in Callers : ~WaitsFor(c, d)

\* C14, amended: a write or resize whose turn has come at the registry lock
\* gets it whatever lookups hold it, when no insert or remove does; one that
\* waits for a session Mutex waits for a write (for the master Mutex: a
\* resize) in progress on the same session; and the writer is used by the
\* holder of the writer Mutex alone, the master by the holder of the master
\* Mutex alone, the two being held independently.  (A write or resize that
\* comes after a waiting close or create waits behind it, and so for the
\* operations in progress on other sessions.)
C14_OwnLocks ==
    /\ \A c \in Callers :
          /\ (pc[c] \in {"w_lock", "r_lock"} /\ AtHead(c) /\ rw.w = NoCaller) =>
                ENABLED ReadLock(c)
          /\ pc[c] = "w_mutex" =>
                \/ ENABLED WriterLock(c)
                \/ \E d \in Callers \ {c} :
                      /\ wmutex[loc[c].pty] = d /\ pc[d] = "w_write_all"
                      /\ loc[d].id = loc[c].id
          /\ pc[c] = "r_mutex" =>
                \/ ENABLED MasterLock(c)
                \/ \E d \in Callers \ {c} :
                      /\ mmutex[loc[c].pty] = d /\ pc[d] = "r_resize"
                      /\ loc[d].id = loc[c].id
          /\ pc[c] = "w_write_all" => wmutex[loc[c].pty] = c
          /\ pc[c] = "r_resize" => mmutex[loc[c].pty] = c
    /\ \A p \in Ptys :
          /\ wmutex[p] # NoCaller =>
                pc[wmutex[p]] = "w_write_all" /\ loc[wmutex[p]].pty = p
          /\ mmutex[p] # NoCaller =>
                pc[mmutex[p]] = "r_resize" /\ loc[mmutex[p]].pty = p

\* A write and a resize are at work on one session, each under its own
\* Mutex, while a write is at work on the other session.
C14_Witness ==
    \E c, d, x \in Callers :
        /\ pc[c] = "w_write_all" /\ pc[d] = "r_resize" /\ pc[x] = "w_write_all"
        /\ loc[c].pty = loc[d].pty
        /\ loc[x].pty # loc[c].pty


\* The read of the thread of p would return: bytes wait, or the process is
\* gone.
ReadReturns(p) == task[p] = "reading" /\ (Avail(p) > 0 \/ proc[p] = "exited")

\* C15: every step of a stream_output thread can be taken whoever holds or
\* waits for the registry lock, no step of the thread changes the lock or
\* its queue, and a caller whose turn it is gets the lock whatever the
\* thread is doing, blocked in its read or not.
C15_ThreadOffTheLock ==
    /\ [](\A p \in OutPtys :
            /\ ReadReturns(p) => ENABLED ReaderRead(p)
            /\ task[p] = "output" => ENABLED EmitOutput(p)
            /\ task[p] \in {"eof", "err"} => ENABLED EmitClosed(p))
    /\ [](\A c \in Callers :
            /\ (pc[c] \in {"w_lock", "r_lock"} /\ AtHead(c) /\ ReadLockFree) =>
                  ENABLED ReadLock(c)
            /\ (pc[c] = "lock_w" /\ AtHead(c) /\ WriteLockFree) => ENABLED CreateLock(c)
            /\ (pc[c] = "c_lock" /\ AtHead(c) /\ WriteLockFree) => ENABLED CloseLock(c))
    /\ [][(\E p \in OutPtys : task[p] # "none" /\ task'[p] # task[p]) =>
              (rw' = rw /\ rwq' = rwq)]_vars

\* The thread has a chunk to emit while a close holds the registry lock
\* exclusively.
C15_Witness ==
    \E p \in OutPtys, c \in Callers :
        /\ task[p] = "output"
        /\ pc[c] = "c_remove" /\ rw.w = c


\* Where a write or resize uses the session it looked up.
UsesSession == {"w_mutex", "w_write_all", "r_mutex", "r_resize"}

\* C16: in the step in which close(id) returns Ok the writer and the master
\* of the session, open until then, are closed, and the reader, the one
\* handle the thread holds, is not; no write or resize is at work on any
\* session in that step, and neither Mutex of the session is held; and no
\* write or resize ever uses a session that was closed, whose writer and
\* master stay closed.
C16_ReleasedOnClose ==
    /\ [][\A c \in Callers :
             (pc[c] = "c_remove" /\ pc'[c] = "idle" /\ ret'[c].res = Ok) =>
                LET p == sessions[loc[c].id].pty IN
                /\ {"writer", "master"} \subseteq hnd[p]
                /\ hnd'[p] = hnd[p] \ {"writer", "master"}
                /\ task[p] \in {"reading", "output", "eof", "err"} => hnd'[p] = {"reader"}
                /\ \A d \in Callers : pc[d] \notin HoldsShared
                /\ wmutex[p] = NoCaller /\ mmutex[p] = NoCaller]_vars
    /\ [](\A d \in Callers : pc[d] \in UsesSession =>
             /\ Found(loc[d].id) /\ loc[d].id \notin closedIds
             /\ sessions[loc[d].id].pty = loc[d].pty)
    /\ [](\A p \in Ptys : tsid[p] \in closedIds => hnd[p] \subseteq {"reader"})

\* A close has returned Ok while the process runs and the thread reads on,
\* holding the reader, the one handle left; a write on the identifier, made
\* after that, got NotFound.
C16_Witness ==
    \E c, d \in Callers, p \in Ptys :
        /\ ret[c] = [op |-> "close", id |-> tsid[p], res |-> Ok]
        /\ ret[d] = [op |-> "write", id |-> tsid[p], res |-> NotFound]
        /\ proc[p] = "running" /\ task[p] = "reading"
        /\ hnd[p] = {"reader"}


\* C17: no step of a close changes the thread of any session, what it has
\* read, its reader or the events emitted; a closed event is emitted only by
\* a thread whose own read returned end-of-stream or an error; a close
\* whose turn it is never waits for a thread; and the thread of a closed
\* session can take every step it could take before, the emission of output
\* included.
C17_CloseLeavesThread ==
    /\ [][/\ \A c \in Callers :
                (pc[c] \in {"c_lock", "c_remove"} /\ pc'[c] # pc[c]) =>
                   /\ task' = task /\ events' = events
                   /\ tbuf' = tbuf /\ rpos' = rpos /\ proc' = proc
                   /\ \A p \in Ptys : ("reader" \in hnd'[p]) = ("reader" \in hnd[p])
          /\ \A i \in Ids : (HasClosed(i)' /\ ~HasClosed(i)) =>
                \E p \in Ptys :
                   /\ tsid[p] = i
                   /\ task[p] \in {"eof", "err"} /\ task'[p] = "terminated"]_vars
    /\ [](\A c \in Callers :
             /\ (pc[c] = "c_lock" /\ AtHead(c) /\ WriteLockFree) => ENABLED CloseLock(c)
             /\ pc[c] = "c_remove" => ENABLED CloseRemove(c))
    /\ [](\A p \in OutPtys : tsid[p] \in closedIds =>
             /\ ReadReturns(p) => ENABLED ReaderRead(p)
             /\ task[p] = "output" => ENABLED EmitOutput(p)
             /\ task[p] \in {"eof", "err"} => ENABLED EmitClosed(p))

\* The session was closed before its thread had emitted anything, the
\* process runs on, and the thread has read a chunk it is about to emit
\* under the identifier that is no longer registered.
C17_Witness ==
    \E p \in OutPtys :
        /\ tsid[p] \in closedIds /\ ~Found(tsid[p])
        /\ proc[p] = "running"
        /\ task[p] = "output"
        /\ events[tsid[p]] = <<>>


\* The PTY pairs whose stream_output thread was started, the identifiers
\* that were inserted into the mapping (each is in it or was closed), and
\* the PTY pairs whose create_session returned Ok.
Started == {p \in Ptys : task[p] # "none"}
Inserted == DOMAIN sessions \cup closedIds
Created == {p \in Ptys : tsid[p] # NoId}
InCreate == {"spawn", "take_writer", "clone_reader", "new_id", "lock_w", "insert",
             "spawn_thread"}

\* A thread is started for a session already inserted, by a create that
\* holds the registry lock no more and returns in the same step; a create
\* that failed started none; events exist only for inserted identifiers.
StartedAfterInsert ==
    /\ \A p \in Started :
          /\ tsid[p] \in Inserted
          /\ \A c \in Callers : pc[c] \in InCreate => loc[c].pty # p
    /\ \A p \in Ptys : Failed(p) => p \notin Started
    /\ \A c \in Callers : pc[c] = "spawn_thread" =>
          /\ rw.w # c
          /\ loc[c].id \in Inserted
          /\ loc[c].pty \notin Started
    /\ \A i \in Ids : events[i] # <<>> => i \in Inserted

C19_Frame ==
    [][\A c \in Callers : pc'[c] # pc[c] =>
          /\ pc[c] \in InWrite \cup InResize => sessions' = sessions
          /\ (pc'[c] = "idle" /\ ret'[c].res = NotFound) =>
                sessions' = sessions /\ hnd' = hnd /\ task' = task
          /\ (pc[c] = "c_remove" /\ ret'[c].res = Ok) =>
                /\ loc[c].id \in DOMAIN sessions
                /\ DOMAIN sessions' = DOMAIN sessions \ {loc[c].id}
                /\ \A j \in DOMAIN sessions' : sessions'[j] = sessions[j]
                /\ \A q \in Ptys \ {sessions[loc[c].id].pty} : hnd'[q] = hnd[q]
                /\ task' = task /\ tsid' = tsid
          /\ pc[c] \in {"idle", "c_lock"} => sessions' = sessions
          /\ pc[c] \in InCreate \ {"insert"} => sessions' = sessions
          /\ pc[c] = "insert" =>
                /\ loc[c].id \notin DOMAIN sessions
                /\ DOMAIN sessions' = DOMAIN sessions \cup {loc[c].id}
                /\ \A j \in DOMAIN sessions : sessions'[j] = sessions[j]
                /\ sessions'[loc[c].id] = TerminalSession(loc[c].id, loc[c].pty)
                /\ hnd' = hnd /\ task' = task]_vars

\* Two sessions were created, a close took one out of the mapping and the
\* other is still in it, and a resize on the closed one got NotFound.
C19_Witness ==
    \E c, d \in Callers, i, j \in Ids :
        /\ i # j /\ Found(j) /\ i \in closedIds
        /\ ret[c] = [op |-> "close", id |-> i, res |-> Ok]
        /\ ret[d] = [op |-> "resize", id |-> i, res |-> NotFound]

====
